---- MODULE Spec2Model ----
(***************************************************************************)
(* Model of homeassistant/helpers/storage.py: class Store (a versioned,    *)
(* debounced JSON store) as it runs on the asyncio event loop.             *)
(*                                                                         *)
(* Granularity.  Everything a coroutine does between two suspension points *)
(* is one atomic step of the event loop.  The suspension points of the     *)
(* code are: the executor job of a disk read (line 71) or write (line      *)
(* 142), and the acquisition of self._write_lock when it is not free       *)
(* (line 140).  The two write callbacks (lines 123, 129) are coroutine     *)
(* functions: the timer / the event bus deregister the listener when they  *)
(* fire and schedule the coroutine as a task, whose body starts at a later *)
(* step of the loop.  A fired callback therefore has the position          *)
(* "scheduled" before its first line runs.                                 *)
(***************************************************************************)
EXTENDS Integers, Sequences, FiniteSets, TLC

\* ------------------------------------------------------------- bounds
MaxSaves == 2          \* async_save calls in a behaviour of Spec
MaxLoadSaves == 1      \* async_save calls in a behaviour of SpecLoad
MaxImportSaves == 1    \* async_save calls beside the import in SpecImport
MaxCallerSaves == 3    \* async_save calls in a behaviour of SpecCallers

\* ------------------------------------------------------------- values
Payloads == {[p |-> "a"], [p |-> "b"]}   \* the opaque dicts callers save
EmptyPayload == [empty |-> TRUE]         \* the literal {} of line 75
None == [none |-> TRUE]                  \* Python's None

CfgVersion == 2        \* self.version of the Store under study
OldVersion == 1        \* a version an earlier release wrote
CfgKey == "settings"   \* self.key

NoFile == [file |-> "absent"]            \* no file at self.path
Garbage == [file |-> "garbage"]          \* a file that is not JSON

\* The dict of lines 84-88.
MakeRecord(d) == [version |-> CfgVersion, key |-> CfgKey, data |-> d]

\* Records an earlier run of this or an older release left on disk.
StoredRecords == {[version |-> v, key |-> CfgKey, data |-> [p |-> "a"]] :
                    v \in {OldVersion, CfgVersion}}

IsRecord(x) == DOMAIN x = {"version", "key", "data"}

\* What a subclass supplies as _async_migrate_func: nothing (the base class,
\* line 159), a working upgrade, or one that raises.
Strategies == {"base", "upgrade", "failing"}

\* The upgrade a working strategy computes from (old_version, old_data).
Migrate(v, d) == [from |-> v, upgraded |-> d]

VARIABLES
    data,          \* self._data: None or the buffered record
    dataSid,       \* history: number of the save that buffered it (0: none)
    unsubDelay,    \* self._unsub_delay_listener: 0 (None) or the timer it cancels
    unsubStop,     \* self._unsub_stop_listener: 0 (None) or the listener it removes
    timers,        \* timers armed in the timer facility and not yet fired/cancelled
    listeners,     \* stop listeners registered on the bus and not yet fired/removed
    stopFired,     \* EVENT_HOMEASSISTANT_STOP has been fired
    locked,        \* self._write_lock._locked
    lockWaiters,   \* self._write_lock._waiters, in arrival order
    tasks,         \* the coroutines that reach _handle_write_data, in creation order
    disk,          \* content of the file at self.path
    writerLog,     \* history: every call of _write_data, in order
    saved,         \* history: every async_save call, in order
    firstTrigger,  \* history: which trigger fired first ("none" so far)
    saveAfterTrigger, \* history: some save was issued after a trigger had fired
    strategy,      \* the migration strategy of this Store
    loadPc,        \* position of the async_load call in progress
    load,          \* history of the latest async_load call
    legacy,        \* content of the file at old_path of async_migrator
    mig            \* the async_migrator call: position, locals, history

vars == <<data, dataSid, unsubDelay, unsubStop, timers, listeners, stopFired,
          locked, lockWaiters, tasks, disk, writerLog, saved, firstTrigger,
          saveAfterTrigger, strategy, loadPc, load, legacy, mig>>

storeVars == <<data, dataSid, unsubDelay, unsubStop, timers, listeners>>
lockVars == <<locked, lockWaiters>>
histVars == <<saved, firstTrigger, saveAfterTrigger>>
loadVars == <<loadPc, load>>
importVars == <<legacy, mig>>

NSaves == Len(saved)
TaskIds == 1..Len(tasks)

NoLoad == [state |-> "none"]

\* An async_migrator call not yet made; transform says whether
\* old_conf_migrate_func is given.
NoImport(transform) ==
    [pc |-> "idle", transform |-> transform, found |-> FALSE, read |-> None,
     config |-> None, task |-> 0, res |-> None, removed |-> FALSE,
     transformCalls |-> 0, saveCalls |-> 0, removeCalls |-> 0]

\* Store.__init__ (lines 47-55) and an idle scheduler.
InitStore ==
    /\ data = None
    /\ dataSid = 0
    /\ unsubDelay = 0
    /\ unsubStop = 0
    /\ timers = {}
    /\ listeners = {}
    /\ stopFired = FALSE
    /\ locked = FALSE
    /\ lockWaiters = << >>
    /\ tasks = << >>
    /\ writerLog = << >>
    /\ saved = << >>
    /\ firstTrigger = "none"
    /\ saveAfterTrigger = FALSE
    /\ loadPc = "idle"
    /\ load = NoLoad

\* The base Store of the source, on a fresh disk or over a record it wrote.
Init ==
    /\ InitStore
    /\ disk \in {NoFile, MakeRecord([p |-> "a"])}
    /\ strategy = "base"
    /\ legacy = NoFile
    /\ mig = NoImport("none")

\* Any migration strategy, over any file an earlier run may have left.
InitLoad ==
    /\ InitStore
    /\ disk \in {NoFile, Garbage} \cup StoredRecords
    /\ strategy \in Strategies
    /\ legacy = NoFile
    /\ mig = NoImport("none")

\* ----------------------------------------------------------- the lock
\* asyncio.Lock.acquire takes the lock without suspending only when it is
\* unlocked and nobody is queued for it.
\* Faulty variant: the write runs without regard to the lock.
LockFree_nolock == TRUE
LockFree == ~locked /\ lockWaiters = << >>

\* --------------------------------------------------- _handle_write_data
\* Line 138: the buffer after a write attempt took its content.
\* Faulty variant: the buffer is left in place when a write takes it.
DataAfterConsume_keep(d) == d
DataAfterConsume(d) == None

NewTask(kind) ==
    [kind |-> kind, pc |-> "scheduled", rec |-> None, sid |-> 0,
     outcome |-> "none", result |-> "pending"]

LogEntry(t, tk) == [rec |-> tk[t].rec, sid |-> tk[t].sid, task |-> t]

\* Lines 137-143 up to the first suspension, run by task t of tk: take the
\* buffer, then either get the lock and submit _write_data to the executor,
\* or queue for the lock.
HandleWriteDataBegin(t, tk, buffered, bufferedSid) ==
    LET took == [tk EXCEPT ![t].rec = buffered, ![t].sid = bufferedSid]
        left == DataAfterConsume(buffered)
    IN  /\ data' = left
        /\ dataSid' = IF left = None THEN 0 ELSE bufferedSid
        /\ IF LockFree
           THEN /\ locked' = TRUE
                /\ lockWaiters' = lockWaiters
                /\ tasks' = [took EXCEPT ![t].pc = "writing"]
                /\ writerLog' = Append(writerLog, LogEntry(t, took))
           ELSE /\ locked' = locked
                /\ lockWaiters' = Append(lockWaiters, t)
                /\ tasks' = [took EXCEPT ![t].pc = "waitlock"]
                /\ writerLog' = writerLog

\* Line 140 for a task that had to queue: the lock was released and this task
\* is the first waiter; it takes the lock and submits _write_data.
LockGranted(t) ==
    /\ t \in TaskIds
    /\ tasks[t].pc = "waitlock"
    /\ ~locked
    /\ lockWaiters # << >>
    /\ Head(lockWaiters) = t
    /\ locked' = TRUE
    /\ lockWaiters' = Tail(lockWaiters)
    /\ tasks' = [tasks EXCEPT ![t].pc = "writing"]
    /\ writerLog' = Append(writerLog, LogEntry(t, tasks))
    /\ UNCHANGED <<storeVars, stopFired, disk, histVars, strategy, loadVars>>

\* What json.save_json can do with the record: write it, or raise.
WriteOutcomes == {"ok", "SerializationError", "WriteError"}

\* Lines 141-147: both exceptions of the write are caught and logged, so the
\* coroutine returns normally whatever the outcome.
\* Faulty variant: the exceptions are not caught.
WriteResult_propagate(outcome) == IF outcome = "ok" THEN "returned" ELSE "raised"
WriteResult(outcome) == "returned"

\* Lines 149-155: the file after _write_data ran with this outcome.
DiskAfterWrite(rec, outcome) == IF outcome = "ok" THEN rec ELSE disk

\* Lines 142-147: the executor job runs _write_data, the coroutine resumes,
\* handles the outcome and leaves the "async with", releasing the lock.
WriteComplete(t, outcome) ==
    /\ t \in TaskIds
    /\ tasks[t].pc = "writing"
    /\ outcome \in WriteOutcomes
    /\ disk' = DiskAfterWrite(tasks[t].rec, outcome)
    /\ tasks' = [tasks EXCEPT ![t].pc = "done", ![t].outcome = outcome,
                              ![t].result = WriteResult(outcome)]
    /\ locked' = FALSE
    /\ UNCHANGED <<storeVars, stopFired, lockWaiters, writerLog, histVars,
                   strategy, loadVars>>

\* ----------------------------------------------- listener housekeeping
\* Lines 116-121, _async_cleanup_delay_listener: the armed timers after the
\* held cancel handle (if any) was called.  Calling the handle of a timer
\* that already fired changes nothing.
TimersAfterCleanup == timers \ {unsubDelay}

\* Lines 109-114, _async_cleanup_stop_listener: the registered listeners
\* after the held handle (if any) was called.
\* Faulty variant: the handle is dropped without being called.
ListenersAfterCleanup_kept == listeners
ListenersAfterCleanup == listeners \ {unsubStop}

\* -------------------------------------------------------- async_save
\* Lines 82-100 with a delay: buffer the record, replace the timer, make
\* sure a stop listener is held.  Nothing suspends: one step.
AsyncSaveDelayed(d) ==
    LET sid == NSaves + 1 IN
    /\ d \in Payloads
    /\ data' = MakeRecord(d)
    /\ dataSid' = sid
    /\ timers' = TimersAfterCleanup \cup {sid}
    /\ unsubDelay' = sid
    /\ IF unsubStop = 0
       THEN /\ unsubStop' = sid
            /\ listeners' = listeners \cup {sid}
       ELSE UNCHANGED <<unsubStop, listeners>>
    /\ saved' = Append(saved, [data |-> d, delayed |-> TRUE])
    /\ saveAfterTrigger' = (saveAfterTrigger \/ firstTrigger # "none")
    /\ UNCHANGED <<stopFired, lockVars, tasks, disk, writerLog, firstTrigger,
                   strategy, loadVars>>

\* Lines 82-95 without a delay: buffer the record, drop timer and stop
\* listener, and run _handle_write_data in the caller's task up to its first
\* suspension.
AsyncSaveNow(d) ==
    LET sid == NSaves + 1
        t == Len(tasks) + 1
        tk == Append(tasks, NewTask("save"))
    IN
    /\ timers' = TimersAfterCleanup
    /\ unsubDelay' = 0
    /\ listeners' = ListenersAfterCleanup
    /\ unsubStop' = 0
    /\ HandleWriteDataBegin(t, tk, MakeRecord(d), sid)
    /\ saved' = Append(saved, [data |-> d, delayed |-> FALSE])
    /\ saveAfterTrigger' = (saveAfterTrigger \/ firstTrigger # "none")
    /\ UNCHANGED <<stopFired, disk, firstTrigger, strategy, loadVars>>

\* ---------------------------------------------------- the two triggers
\* The timer armed at line 97 expires: the facility drops it and schedules
\* the coroutine _async_callback_delayed_write.
TimerFire(id) ==
    /\ id \in timers
    /\ timers' = timers \ {id}
    /\ tasks' = Append(tasks, NewTask("timer"))
    /\ firstTrigger' = IF firstTrigger = "none" THEN "timer" ELSE firstTrigger
    /\ UNCHANGED <<data, dataSid, unsubDelay, unsubStop, listeners, stopFired,
                   lockVars, disk, writerLog, saved, saveAfterTrigger, strategy,
                   loadVars>>

RECURSIVE StopTasks(_)
StopTasks(ls) ==
    IF ls = {} THEN << >>
    ELSE LET l == CHOOSE x \in ls : TRUE
         IN  <<NewTask("stop")>> \o StopTasks(ls \ {l})

\* EVENT_HOMEASSISTANT_STOP is fired, once: the bus drops every listener
\* registered at line 106 and schedules its coroutine
\* _async_callback_stop_write.
StopFire ==
    /\ ~stopFired
    /\ stopFired' = TRUE
    /\ listeners' = {}
    /\ tasks' = tasks \o StopTasks(listeners)
    /\ firstTrigger' = IF firstTrigger = "none" THEN "stop" ELSE firstTrigger
    /\ UNCHANGED <<data, dataSid, unsubDelay, unsubStop, timers, lockVars, disk,
                   writerLog, saved, saveAfterTrigger, strategy, loadVars>>

\* Lines 123-127 and on into _handle_write_data: the scheduled coroutine
\* runs to its first suspension.
DelayedWriteStart(t) ==
    /\ t \in TaskIds
    /\ tasks[t].kind = "timer"
    /\ tasks[t].pc = "scheduled"
    /\ unsubDelay' = 0
    /\ listeners' = ListenersAfterCleanup
    /\ unsubStop' = 0
    /\ HandleWriteDataBegin(t, tasks, data, dataSid)
    /\ UNCHANGED <<timers, stopFired, disk, histVars, strategy, loadVars>>

\* Lines 129-133 and on into _handle_write_data.
StopWriteStart(t) ==
    /\ t \in TaskIds
    /\ tasks[t].kind = "stop"
    /\ tasks[t].pc = "scheduled"
    /\ unsubStop' = 0
    /\ timers' = TimersAfterCleanup
    /\ unsubDelay' = 0
    /\ HandleWriteDataBegin(t, tasks, data, dataSid)
    /\ UNCHANGED <<listeners, stopFired, disk, histVars, strategy, loadVars>>

\* -------------------------------------------------------- async_load
Return(v) == [kind |-> "return", val |-> v]
Raise(e) == [kind |-> "raise", err |-> e]

\* Lines 157-159 and its overrides: the outcome of the migration strategy.
MigrateFunc(v, d) ==
    CASE strategy = "base" -> Raise("NotImplementedError")
      [] strategy = "upgrade" -> Return(Migrate(v, d))
      [] strategy = "failing" -> Raise("MigrationFailed")

\* Line 80: the arguments the strategy is called with.
\* Faulty variant: the strategy is given the configured version.
MigrateArgs_configured(rec) == <<CfgVersion, rec.data>>
MigrateArgs(rec) == <<rec["version"], rec.data>>

\* Lines 74-80: what async_load does with the dict it has in hand; .res is
\* its outcome and .mig the calls of the strategy it made.
\* Faulty variant: the version of the record is not compared.
LoadOutcome_unchecked(d) ==
    IF d = None THEN [res |-> Return(EmptyPayload), mig |-> << >>]
    ELSE [res |-> Return(d.data), mig |-> << >>]
LoadOutcome(d) ==
    IF d = None THEN [res |-> Return(EmptyPayload), mig |-> << >>]
    ELSE IF d["version"] = CfgVersion THEN [res |-> Return(d.data), mig |-> << >>]
    ELSE [res |-> MigrateFunc(MigrateArgs(d)[1], MigrateArgs(d)[2]),
          mig |-> <<MigrateArgs(d)>>]

\* json.load_json(path, None) of lines 71-72: the default None when there
\* is no file, a parse error when the file is not JSON, the parsed content
\* otherwise.
ReadJson(file) ==
    CASE file = NoFile -> Return(None)
      [] file = Garbage -> Raise("ParseError")
      [] OTHER -> Return(file)

\* Lines 71-80: an exception of the read propagates out of async_load;
\* a value goes on to the version check.
LoadAfterRead(r) ==
    IF r.kind = "raise" THEN [res |-> r, mig |-> << >>] ELSE LoadOutcome(r.val)

\* async_load never assigns self._data (lines 62-80): the buffer after a
\* call that found d in it and ended with outcome out.
\* Faulty variant: a load takes the buffer it answered from.
DataAfterLoad_consume(d, out) == None
DataAfterLoad(d, out) == d

\* Lines 68-69 and 77-80: a buffered record is used without touching the
\* disk, and the call finishes in one step.  Otherwise (lines 71-72) the
\* read is submitted to the executor and the call suspends.
AsyncLoadStart ==
    /\ loadPc = "idle"
    /\ IF data # None
       THEN /\ loadPc' = "idle"
            /\ data' = DataAfterLoad(data, LoadOutcome(data))
            /\ load' = [state |-> "done", pending |-> TRUE, saw |-> data,
                        startSaves |-> NSaves, endSaves |-> NSaves,
                        out |-> LoadOutcome(data),
                        dataBefore |-> data, dataAfter |-> data']
       ELSE /\ loadPc' = "reading"
            /\ data' = data
            /\ load' = [state |-> "reading", startSaves |-> NSaves]
    /\ UNCHANGED <<dataSid, unsubDelay, unsubStop, timers, listeners,
                   stopFired, lockVars, tasks, disk, writerLog, histVars,
                   strategy>>

\* Lines 71-80: the executor read the file and the call resumes with the
\* result, or with the parse error of a file that is not JSON.
AsyncLoadRead ==
    /\ loadPc = "reading"
    /\ loadPc' = "idle"
    /\ data' = DataAfterLoad(data, LoadAfterRead(ReadJson(disk)))
    /\ load' = [state |-> "done", pending |-> FALSE, saw |-> disk,
                startSaves |-> load.startSaves, endSaves |-> NSaves,
                out |-> LoadAfterRead(ReadJson(disk)),
                dataBefore |-> data, dataAfter |-> data']
    /\ UNCHANGED <<dataSid, unsubDelay, unsubStop, timers, listeners,
                   stopFired, lockVars, tasks, disk, writerLog, histVars,
                   strategy>>

\* ---------------------------------------------------- async_migrator
LegacyContents == {[old |-> "x"]}        \* what a legacy file may hold

\* old_conf_migrate_func (line 36): what the caller's transform returns.
Transform(c) == [transformed |-> c]

\* Lines 23-28, load_old_config: None when there is no file at old_path,
\* else the parsed content (or the parse error of json.load_json).
\* Faulty variant: the file is read without the os.path.isfile test, and
\* json.load_json answers a missing file with its default {}.
LoadOldConfig_nocheck(file) ==
    CASE file = NoFile -> Return(EmptyPayload)
      [] file = Garbage -> Raise("ParseError")
      [] OTHER -> Return(file)
LoadOldConfig(file) ==
    CASE file = NoFile -> Return(None)
      [] file = Garbage -> Raise("ParseError")
      [] OTHER -> Return(file)

\* Lines 35-36: the config after the optional transform.
FinalConfig(c) == IF mig.transform = "some" THEN Transform(c) ELSE c

\* Line 30: the call starts and submits load_old_config to the executor.
MigratorStart ==
    /\ mig.pc = "idle"
    /\ mig' = [mig EXCEPT !.pc = "loading"]
    /\ UNCHANGED <<storeVars, stopFired, lockVars, tasks, disk, writerLog,
                   histVars, strategy, loadVars, legacy>>

\* Lines 30-38: the executor ran load_old_config and the call resumes.  A
\* parse error ends it; None ends it with None; otherwise the config is
\* transformed if asked and store.async_save(config) runs, without delay, up
\* to its first suspension.
MigratorLoaded ==
    LET r == LoadOldConfig(legacy) IN
    /\ mig.pc = "loading"
    /\ legacy' = legacy
    /\ IF r.kind = "raise" \/ r.val = None
       THEN /\ mig' = [mig EXCEPT !.pc = "done",
                                  !.res = IF r.kind = "raise" THEN r
                                          ELSE Return(None)]
            /\ UNCHANGED <<storeVars, stopFired, lockVars, tasks, disk,
                           writerLog, histVars, strategy, loadVars>>
       ELSE /\ mig' = [mig EXCEPT
                         !.pc = "saving", !.found = TRUE, !.read = r.val,
                         !.config = FinalConfig(r.val),
                         !.task = Len(tasks) + 1,
                         !.transformCalls =
                             IF mig.transform = "some" THEN 1 ELSE 0,
                         !.saveCalls = 1]
            /\ AsyncSaveNow(FinalConfig(r.val))

\* Lines 38-39: the awaited async_save returned (or raised); the call goes
\* on to submit os.remove(old_path) to the executor.
MigratorSaved ==
    /\ mig.pc = "saving"
    /\ tasks[mig.task].pc = "done"
    /\ mig' = IF tasks[mig.task].result = "raised"
              THEN [mig EXCEPT !.pc = "done", !.res = Raise("WriteFailed")]
              ELSE [mig EXCEPT !.pc = "removing"]
    /\ UNCHANGED <<storeVars, stopFired, lockVars, tasks, disk, writerLog,
                   histVars, strategy, loadVars, legacy>>

\* Lines 39-40: the executor ran os.remove; it removed the file and the call
\* returns the config, or it failed and the OSError ends the call.
MigratorRemove(ok) ==
    /\ mig.pc = "removing"
    /\ legacy' = IF ok THEN NoFile ELSE legacy
    /\ mig' = [mig EXCEPT !.pc = "done",
                          !.res = IF ok THEN Return(mig.config)
                                  ELSE Raise("OSError"),
                          !.removed = ok,
                          !.removeCalls = 1]
    /\ UNCHANGED <<storeVars, stopFired, lockVars, tasks, disk, writerLog,
                   histVars, strategy, loadVars>>

\* ------------------------------------------------------ specification
Triggers ==
    \/ \E id \in timers : TimerFire(id)
    \/ StopFire
    \/ \E t \in TaskIds : DelayedWriteStart(t)
    \/ \E t \in TaskIds : StopWriteStart(t)
    \/ \E t \in TaskIds : LockGranted(t)
    \/ \E t \in TaskIds, o \in WriteOutcomes : WriteComplete(t, o)

\* Saves, triggers and writes on one Store.
Next ==
    \/ \E d \in Payloads :
          NSaves < MaxSaves /\ AsyncSaveDelayed(d) /\ UNCHANGED importVars
    \/ \E d \in Payloads :
          NSaves < MaxSaves /\ AsyncSaveNow(d) /\ UNCHANGED importVars
    \/ Triggers /\ UNCHANGED importVars

Spec == Init /\ [][Next]_vars

\* The same with async_load calls in between.
NextLoad ==
    \/ \E d \in Payloads :
          NSaves < MaxLoadSaves /\ AsyncSaveDelayed(d) /\ UNCHANGED importVars
    \/ \E d \in Payloads :
          NSaves < MaxLoadSaves /\ AsyncSaveNow(d) /\ UNCHANGED importVars
    \/ Triggers /\ UNCHANGED importVars
    \/ AsyncLoadStart /\ UNCHANGED importVars
    \/ AsyncLoadRead /\ UNCHANGED importVars

SpecLoad == InitLoad /\ [][NextLoad]_vars

\* One async_migrator call on the Store, beside the Store's other users.
InitImport ==
    /\ InitStore
    /\ disk = NoFile
    /\ strategy = "base"
    /\ legacy \in {NoFile, Garbage} \cup LegacyContents
    /\ mig \in {NoImport(f) : f \in {"none", "some"}}

NextImport ==
    \/ \E d \in Payloads :
          /\ NSaves - mig.saveCalls < MaxImportSaves
          /\ AsyncSaveDelayed(d)
          /\ UNCHANGED importVars
    \/ \E d \in Payloads :
          /\ NSaves - mig.saveCalls < MaxImportSaves
          /\ AsyncSaveNow(d)
          /\ UNCHANGED importVars
    \/ Triggers /\ UNCHANGED importVars
    \/ MigratorStart
    \/ MigratorLoaded
    \/ MigratorSaved
    \/ \E ok \in BOOLEAN : MigratorRemove(ok)

SpecImport == InitImport /\ [][NextImport]_vars


\* Callers of async_save alone: no timer expires and no stop event fires, so
\* every write is that of an async_save without delay.
NextCallers ==
    \/ \E d \in Payloads :
          /\ NSaves < MaxCallerSaves
          /\ AsyncSaveDelayed(d)
          /\ UNCHANGED importVars
    \/ \E d \in Payloads :
          /\ NSaves < MaxCallerSaves
          /\ AsyncSaveNow(d)
          /\ UNCHANGED importVars
    \/ \E t \in TaskIds : LockGranted(t) /\ UNCHANGED importVars
    \/ \E t \in TaskIds, o \in WriteOutcomes :
          WriteComplete(t, o) /\ UNCHANGED importVars

SpecCallers == Init /\ [][NextCallers]_vars

\* ============================================================ claims
WriteInFlight == \E t \in TaskIds : tasks[t].pc = "writing"
Writing == {t \in TaskIds : tasks[t].pc = "writing"}
Waiting == {t \in TaskIds : tasks[t].pc = "waitlock"}
LastSaved == MakeRecord(saved[NSaves].data)
OnlyDelayedSaves == \A i \in 1..NSaves : saved[i].delayed
FailedTriggerWrites ==
    {t \in TaskIds : /\ tasks[t].kind \in {"timer", "stop"}
                     /\ tasks[t].pc = "done"
                     /\ tasks[t].outcome # "ok"}

\* C1 (coalescing): when every save so far was issued with a delay and before
\* any trigger fired, everything handed to the Writer is the record of the
\* last save Sn, so no earlier payload and nothing else reaches storage.
C1_OnlyLastSaveWritten ==
    (NSaves >= 1 /\ OnlyDelayedSaves /\ ~saveAfterTrigger) =>
        \A i \in 1..Len(writerLog) :
            /\ writerLog[i].rec = LastSaved
            /\ writerLog[i].sid = NSaves

\* C2 (shutdown flush): after a single save(P, delay), when the stop event
\* fires before the timer, the Writer runs at most once and is handed P; the
\* timer causes no second write.
C2_ShutdownFlushWritesOnce ==
    (NSaves = 1 /\ OnlyDelayedSaves /\ firstTrigger = "stop") =>
        /\ Len(writerLog) <= 1
        /\ \A i \in 1..Len(writerLog) : writerLog[i].rec = LastSaved

\* C3 (buffered read): a load that starts after save(P) and ends with no
\* later save returns P, wherever the write of P stands.
C3_LoadReturnsLastSave ==
    (load.state = "done" /\ load.startSaves >= 1
        /\ load.endSaves = load.startSaves) =>
        load.out.res = Return(saved[load.startSaves].data)

\* C4 as stated: an immediate save whose write failed ends with the error
\* raised to its caller.
C4_ImmediateSaveRaises ==
    \A t \in TaskIds :
        (tasks[t].kind = "save" /\ tasks[t].pc = "done"
            /\ tasks[t].outcome # "ok") => tasks[t].result = "raised"

\* C4 as amended: an immediate save returns normally whatever the outcome of
\* its write; a SerializationError or WriteError is caught in the write
\* handler, as for the delayed writes.
C4_ImmediateSaveReturns ==
    \A t \in TaskIds :
        (tasks[t].kind = "save" /\ tasks[t].pc = "done") =>
            tasks[t].result = "returned"

C4_Witness ==
    \E t \in TaskIds :
        /\ tasks[t].kind = "save"
        /\ tasks[t].pc = "done"
        /\ tasks[t].outcome \in {"SerializationError", "WriteError"}

\* C5 (swallowed failure of a triggered write): the step in which a write by
\* the timer or stop callback fails leaves storage and the buffer as they
\* were, releases the lock and returns normally; no save call ends with an
\* error; and the payload that write consumed is held nowhere any more, so
\* no later trigger can write it.
C5_TriggeredFailureSwallowed ==
    [][ /\ \A t \in TaskIds :
              (/\ tasks[t].kind \in {"timer", "stop"}
               /\ tasks[t].pc = "writing"
               /\ tasks'[t].pc = "done"
               /\ tasks'[t].outcome # "ok") =>
                  /\ disk' = disk
                  /\ data' = data
                  /\ ~locked'
                  /\ tasks'[t].result = "returned"
        /\ \A t \in FailedTriggerWrites' :
              /\ \A u \in DOMAIN tasks' : tasks'[u].result # "raised"
              /\ tasks'[t].sid # 0 =>
                    /\ dataSid' # tasks'[t].sid
                    /\ \A u \in DOMAIN tasks' :
                          u # t => tasks'[u].sid # tasks'[t].sid
                    /\ Cardinality({i \in DOMAIN writerLog' :
                          writerLog'[i].sid = tasks'[t].sid}) = 1
      ]_vars

C5_Witness ==
    \E t \in FailedTriggerWrites :
        /\ tasks[t].sid # 0
        /\ disk # tasks[t].rec
        /\ \E u \in TaskIds : u > t /\ tasks[u].pc = "done"

\* C6 (one timer, one listener): at most one timer is armed and at most one
\* stop listener is registered, and each is the one whose cancel handle the
\* Store holds.
C6_OneTimerOneListener ==
    /\ Cardinality(timers) <= 1
    /\ Cardinality(listeners) <= 1
    /\ timers \subseteq {unsubDelay}
    /\ listeners \subseteq {unsubStop}

\* C7 (write mutual exclusion): at most one _write_data call is in progress,
\* it runs with the lock held, and every other task that reached the lock is
\* queued for it until the lock is released.
C7_WriteMutualExclusion ==
    /\ Cardinality(Writing) <= 1
    /\ Writing # {} => locked
    /\ \A t \in Waiting : \E i \in DOMAIN lockWaiters : lockWaiters[i] = t
    /\ \A i \in DOMAIN writerLog :
          tasks[writerLog[i].task].pc \in {"writing", "done"}
    /\ \A i, j \in DOMAIN writerLog :
          i < j => tasks[writerLog[i].task].pc = "done"

C7_Witness ==
    /\ Writing # {}
    /\ Waiting # {}
    /\ \E t \in TaskIds : tasks[t].pc = "done" /\ tasks[t].outcome # "ok"

\* C8 (whole records): everything handed to the Writer is a record
\* {version, key, data} carrying the configured version and key.
C8_WriterGetsWholeRecords ==
    \A i \in DOMAIN writerLog :
        /\ IsRecord(writerLog[i].rec)
        /\ writerLog[i].rec["version"] = CfgVersion
        /\ writerLog[i].rec.key = CfgKey

LoadMigrated ==
    /\ load.state = "done"
    /\ ~load.pending
    /\ IsRecord(load.saw)
    /\ load.saw["version"] # CfgVersion

\* C9 as stated: a load that read a record of another version called the
\* strategy once with (stored version, stored data), returned its result, and
\* left that result as the Store's buffered payload.
C9_MigratedBecomesBuffer ==
    (LoadMigrated /\ strategy = "upgrade") =>
        /\ load.out.mig = << <<load.saw["version"], load.saw.data>> >>
        /\ load.out.res = Return(Migrate(load.saw["version"], load.saw.data))
        /\ IsRecord(load.dataAfter)
        /\ load.dataAfter.data = load.out.res.val

\* C9 as amended: a load that read a record of another version called the
\* strategy exactly once, with (stored version, stored data), and its
\* outcome is the outcome of the load; the call leaves the Store's buffer as
\* it found it (the migrated payload is returned, not kept).
C9_MigrationCalledOnce ==
    LoadMigrated =>
        /\ load.out.mig = << <<load.saw["version"], load.saw.data>> >>
        /\ load.out.res = MigrateFunc(load.saw["version"], load.saw.data)
        /\ strategy = "upgrade" =>
              load.out.res = Return(Migrate(load.saw["version"], load.saw.data))
        /\ load.dataAfter = load.dataBefore

C9_Witness == LoadMigrated /\ strategy = "upgrade" /\ NSaves >= 1

\* C10 (load outcomes): a load that found nothing buffered returns the empty
\* payload only when storage holds no record; returns the data of a record
\* of the configured version; and ends with the error when the file cannot
\* be parsed, when the version differs and the strategy is the base one, or
\* when the strategy fails.
C10_LoadOutcomes ==
    (load.state = "done" /\ ~load.pending) =>
        /\ load.out.res = Return(EmptyPayload) => load.saw \in {NoFile, None}
        /\ load.saw \in {NoFile, None} => load.out.res = Return(EmptyPayload)
        /\ load.saw = Garbage => load.out.res = Raise("ParseError")
        /\ (IsRecord(load.saw) /\ load.saw["version"] = CfgVersion) =>
              load.out.res = Return(load.saw.data)
        /\ (LoadMigrated /\ strategy = "base") =>
              load.out.res = Raise("NotImplementedError")
        /\ (LoadMigrated /\ strategy = "failing") =>
              load.out.res = Raise("MigrationFailed")

C10_Witness ==
    /\ load.state = "done"
    /\ ~load.pending
    /\ load.out.res.kind = "raise"
    /\ IsRecord(load.saw)

\* C11 (load from the buffer): a load issued while a record is buffered
\* finishes in that step without a disk read, returns the data of the
\* buffered record, and leaves the buffer, the timer, the stop listener,
\* their handles, the writes and storage as they were.
C11_LoadFromBufferIsPure ==
    [][ (loadPc = "idle" /\ data # None /\ load' # load) =>
            /\ loadPc' = "idle"
            /\ load'.state = "done"
            /\ load'.pending
            /\ load'.out.res = Return(data.data)
            /\ load'.out.res = Return(saved[NSaves].data)
            /\ UNCHANGED <<data, dataSid, unsubDelay, unsubStop, timers,
                           listeners, disk, tasks, writerLog, lockVars>>
      ]_vars

C11_Witness ==
    /\ load.state = "done"
    /\ load.pending
    /\ load.saw = data
    /\ timers # {}
    /\ listeners # {}
    /\ ~IsRecord(disk)

\* C12 (nothing to import): when there is no file at old_path, the
\* async_migrator call ends with None at the step that learns it, having
\* called neither the transform nor async_save nor os.remove, and no step of
\* the call changes the Store, its writes, storage or the legacy path.
C12_NoLegacyFileNoEffect ==
    [][ (mig' # mig /\ legacy = NoFile /\ mig.pc \in {"idle", "loading"}) =>
            /\ mig.pc = "loading" =>
                  /\ mig'.pc = "done"
                  /\ mig'.res = Return(None)
            /\ mig'.transformCalls = 0
            /\ mig'.saveCalls = 0
            /\ mig'.removeCalls = 0
            /\ UNCHANGED <<storeVars, lockVars, tasks, writerLog, saved, disk,
                           legacy>>
      ]_vars

C12_Witness ==
    /\ mig.pc = "done" /\ ~mig.found /\ mig.res = Return(None)
    /\ legacy = NoFile /\ mig.saveCalls = 0 /\ mig.transform = "some"
    /\ NSaves = 1

\* C13 (import keeps the data): once the importer, given no transform and
\* being the Store's only saver, has removed the legacy file, storage holds
\* a record with the legacy content and the call has returned that content.
C13_RemovedOnlyAfterStored ==
    (mig.removed /\ mig.transform = "none" /\ NSaves = mig.saveCalls) =>
        /\ disk = MakeRecord(mig.read)
        /\ mig.res = Return(mig.read)

\* C14 (a write takes the latest payload): at the step in which a write
\* starts to execute under the write lock, the record it hands to the Writer
\* is the record of the latest save made so far.
C14_WriteExecutesLatestSave ==
    [][ \A t \in 1..Len(tasks') :
            ( /\ tasks'[t].pc = "writing"
              /\ (t \in TaskIds => tasks[t].pc # "writing") ) =>
                /\ tasks'[t].sid = Len(saved')
                /\ tasks'[t].rec = MakeRecord(saved'[Len(saved')].data)
      ]_vars

\* C15 (re-entrancy): a save with a delay made while a write is in flight
\* only buffers its payload Q and arms Q's timer and a stop listener; the
\* completion of a write leaves the buffer, the timers, the listeners and the
\* Writer's log as they were; and a timer callback takes Q from the buffer
\* only after Q's own timer has fired.  (A payload found in the buffer while
\* a write is in flight was saved during that write, which emptied the
\* buffer when it began.)
C15_ReentrantSaveWaitsForOwnTrigger ==
    [][ /\ (WriteInFlight /\ saved' # saved /\ saved'[Len(saved')].delayed) =>
              /\ data' = MakeRecord(saved'[Len(saved')].data)
              /\ dataSid' = Len(saved')
              /\ Len(saved') \in timers'
              /\ unsubDelay' = Len(saved')
              /\ unsubStop' # 0
              /\ UNCHANGED <<tasks, writerLog, disk, lockVars>>
        /\ (\E t \in TaskIds : tasks[t].pc = "writing" /\ tasks'[t].pc = "done") =>
              UNCHANGED <<data, dataSid, timers, listeners, unsubDelay,
                          unsubStop, writerLog>>
        /\ \A t \in TaskIds :
              ( /\ tasks[t].pc = "scheduled"
                /\ tasks[t].kind = "timer"
                /\ tasks'[t].pc # "scheduled"
                /\ tasks'[t].sid # 0
                /\ saved[tasks'[t].sid].delayed
                /\ WriteInFlight ) =>
                    tasks'[t].sid \notin timers
      ]_vars

\* C16 (immediate save pre-empts): after a save of P with a delay and then,
\* before any timer expiry or stop event, a save of Q without delay, no timer
\* and no stop listener is left, no trigger callback ever runs, and the one
\* thing handed to the Writer is the record of Q.
C16_ImmediateSavePreempts ==
    ( /\ NSaves = 2
      /\ saved[1].delayed
      /\ ~saved[2].delayed
      /\ ~saveAfterTrigger ) =>
        /\ timers = {} /\ listeners = {}
        /\ unsubDelay = 0 /\ unsubStop = 0
        /\ Len(tasks) = 1 /\ tasks[1].kind = "save"
        /\ Len(writerLog) = 1
        /\ writerLog[1].sid = 2
        /\ writerLog[1].rec = MakeRecord(saved[2].data)

C16_Witness ==
    /\ NSaves = 2 /\ saved[1].delayed /\ ~saved[2].delayed
    /\ ~saveAfterTrigger /\ stopFired
    /\ saved[1].data # saved[2].data
    /\ Len(tasks) = 1 /\ tasks[1].pc = "done"
    /\ disk = MakeRecord(saved[2].data)

AllTasksDone == \A t \in TaskIds : tasks[t].pc = "done"

\* C17 (the Store settles): when nothing is left that the timer facility,
\* the stop event or the executor could still do (no timer armed, every
\* callback and write finished, the stop event fired already), the Store is
\* Idle: no buffered payload, no stop listener, the write lock free.
C17_SettlesToIdle ==
    (timers = {} /\ AllTasksDone /\ stopFired) =>
        /\ data = None
        /\ listeners = {}
        /\ ~locked

\* C18 (one write per save): every Writer invocation carries the record of a
\* save, no two carry the same save, there are never more invocations than
\* saves, and no trigger has run _handle_write_data on an empty buffer.
C18_EachWriteADistinctSave ==
    /\ Len(writerLog) <= NSaves
    /\ \A i \in 1..Len(writerLog) :
          /\ writerLog[i].sid \in 1..NSaves
          /\ writerLog[i].rec = MakeRecord(saved[writerLog[i].sid].data)
    /\ \A i, j \in 1..Len(writerLog) :
          writerLog[i].sid = writerLog[j].sid => i = j
    /\ \A t \in TaskIds : tasks[t].pc # "scheduled" => tasks[t].sid # 0

\* C19 (buffer, timer and listener go together): when no callback or write
\* is under way, a payload is buffered exactly when a timer is armed and
\* exactly when a stop listener is registered.
C19_BufferTimerListenerTogether ==
    AllTasksDone =>
        /\ (data # None) <=> (timers # {})
        /\ (data # None) <=> (listeners # {})

\* C20 (quiescent consistency): when no write has failed and the Store is
\* quiescent (nothing buffered, no timer armed, no callback or write under
\* way) after at least one save, storage holds the record of the last save.
C20_QuiescentStorageIsLastSave ==
    ( /\ NSaves > 0
      /\ data = None /\ timers = {} /\ AllTasksDone
      /\ \A t \in TaskIds : tasks[t].outcome = "ok" ) =>
        disk = LastSaved
====
